---- MODULE Spec2Model ----
(***************************************************************************)
(* A model of src/main.rs: a 2D particle simulation driven by a fixed-step *)
(* accumulator loop.                                                       *)
(*                                                                         *)
(* Numbers.  Every quantity of the program is an f32.                      *)
(*  - The accumulator, the frame times and TIME_STEP are modelled          *)
(*    bit-exactly: a time is an integer number of ticks of 2^-30 s, and    *)
(*    every addition and subtraction is rounded to a 24-bit significand    *)
(*    with ties to even (RoundF32), which is what f32 does for the values  *)
(*    the model uses (multiples of a tick below 2 s).                      *)
(*  - Positions, velocities, radii, masses and the physics constants are   *)
(*    fixed-point numbers, Scale units to 1.0.  Every multiplication,      *)
(*    division and square root rounds its exact result to the nearest      *)
(*    unit (ties to even), as f32 rounds to the nearest representable      *)
(*    value; additions and subtractions of fixed-point numbers are exact.  *)
(* The appearance (color) of a particle is opaque to the physics and is    *)
(* left out.  The screen size is read from the windowing library on every  *)
(* call; it is a variable that no action of the model changes.             *)
(***************************************************************************)
EXTENDS Integers, Sequences, FiniteSets, TLC

VARIABLES
    screen,       \* <<width, height>> of the window in pixels (fixed-point)
    particles,    \* particles[r]: the Vec<Particle> of run r
    accumulator,  \* accumulator[r]: ticks of 2^-30 s
    pc,           \* pc[r]: the position of run r in main (or in a call)
    idx,          \* idx[r]: the index of the for loop underway (1 outside the loops)
    steps,        \* steps[r]: completed sub-steps (history)
    phases,       \* phases[r]: the phase steps taken in the current sub-step (history)
    pre           \* pre[r]: a snapshot taken at the start of a frame or of a call (history)

vars == <<screen, particles, accumulator, pc, idx, steps, phases, pre>>

(* Two independent runs of the program; the single-run specifications move *)
(* run 1 only.                                                             *)
Runs == {1, 2}

----------------------------------------------------------------------------
(* f32 arithmetic                                                          *)

Scale == 1200

Abs(a) == IF a < 0 THEN -a ELSE a

Min(a, b) == IF a <= b THEN a ELSE b

(* n / d for d > 0, rounded to the nearest integer, ties to even. *)
RoundDiv(n, d) ==
    LET q == n \div d
        r == n % d
    IN  IF 2 * r < d THEN q
        ELSE IF 2 * r > d THEN q + 1
        ELSE IF q % 2 = 0 THEN q ELSE q + 1

(* The decimal literal n/d as a fixed-point number. *)
Lit(n, d) == RoundDiv(n * Scale, d)

FMul(a, b) == RoundDiv(a * b, Scale)

FDiv(a, b) == IF b > 0 THEN RoundDiv(a * Scale, b) ELSE RoundDiv(-(a * Scale), -b)

RECURSIVE SqrtSearch(_, _, _)
(* The largest s in lo..hi with s * s <= n. *)
SqrtSearch(n, lo, hi) ==
    IF lo >= hi THEN lo
    ELSE LET mid == (lo + hi + 1) \div 2
         IN  IF mid * mid <= n THEN SqrtSearch(n, mid, hi)
             ELSE SqrtSearch(n, lo, mid - 1)

(* sqrt(n) rounded to the nearest integer; 46340 = floor(sqrt(2^31 - 1)). *)
ISqrt(n) ==
    LET s == SqrtSearch(n, 0, 46340)
    IN  IF n - s * s > s THEN s + 1 ELSE s

Vec2(x, y) == [x |-> x, y |-> y]

VAdd(a, b) == Vec2(a.x + b.x, a.y + b.y)

VSub(a, b) == Vec2(a.x - b.x, a.y - b.y)

VMulS(a, k) == Vec2(FMul(a.x, k), FMul(a.y, k))

VDivS(a, k) == Vec2(FDiv(a.x, k), FDiv(a.y, k))

VDot(a, b) == FMul(a.x, b.x) + FMul(a.y, b.y)

(* Vec2::length: the square root of the dot product with itself, here     *)
(* exact under the root and rounded once.                                  *)
VLength(a) == ISqrt(a.x * a.x + a.y * a.y)

RECURSIVE Ulp(_)
(* The spacing, in ticks, of the f32 values around v >= 0 ticks. *)
Ulp(v) == IF v < 16777216 THEN 1 ELSE 2 * Ulp(v \div 2)

(* v >= 0 ticks rounded to a 24-bit significand, ties to even. *)
RoundF32(v) ==
    LET q == Ulp(v)
        lo == (v \div q) * q
        r == v - lo
    IN  IF 2 * r < q THEN lo
        ELSE IF 2 * r > q THEN lo + q
        ELSE IF (lo \div q) % 2 = 0 THEN lo ELSE lo + q

----------------------------------------------------------------------------
(* Constants                                                               *)

SIM_MIN_WIDTH == Lit(20, 1)

BOUNDARY_PADDING == Lit(1, 1)

TIME_STEP == Lit(1, 60)

(* The f32 nearest to 1/60 is 8947849 * 2^-29 = 17895698 ticks. *)
TIME_STEP_TICKS == 17895698

VELOCITY_THRESHOLD == Lit(1, 10)

Physics_default ==
    [gravity |-> Lit(-98, 10), restitution |-> Lit(7, 10), friction |-> Lit(99, 100)]

physics == Physics_default

----------------------------------------------------------------------------
(* Coordinate conversion and Boundary                                      *)

screen_width == screen[1]

screen_height == screen[2]

pixels_per_meter == FDiv(Min(screen_width, screen_height), SIM_MIN_WIDTH)

world_dimensions ==
    LET ppm == pixels_per_meter
    IN  Vec2(FDiv(screen_width, ppm), FDiv(screen_height, ppm))

Boundary_new ==
    LET world == world_dimensions
    IN  [left |-> BOUNDARY_PADDING,
         right |-> world.x - BOUNDARY_PADDING,
         bottom |-> BOUNDARY_PADDING,
         top |-> world.y - BOUNDARY_PADDING]

----------------------------------------------------------------------------
(* Particle                                                                *)

Particle_new(position, velocity, radius, mass) ==
    [position |-> position, velocity |-> velocity, radius |-> radius, mass |-> mass]

update(p, dt) ==
    LET vy == p.velocity.y + FMul(physics.gravity, dt)
        velocity == Vec2(p.velocity.x, vy)
    IN  [p EXCEPT !.velocity = velocity,
                  !.position = VAdd(p.position, VMulS(velocity, dt))]

(* The reflection off the floor, zeroed below VELOCITY_THRESHOLD. *)
ReflectFloor(v) ==
    LET bounced == FMul(-v, physics.restitution)
    IN  IF Abs(bounced) < VELOCITY_THRESHOLD THEN 0 ELSE bounced

(* Mutant: the walls and the ceiling zero a slow reflection as the floor does. *)
Reflect_Thresholded(v) == ReflectFloor(v)

(* -self.velocity * physics.restitution: the reflection off a wall or the *)
(* ceiling.                                                                *)
Reflect(v) == FMul(-v, physics.restitution)

(* The vertical branch of handle_boundary_collision. *)
VerticalBoundaries(p, lo, hi) ==
    IF p.position.y <= lo
    THEN [p EXCEPT !.position = Vec2(p.position.x, lo),
                   !.velocity = Vec2(FMul(p.velocity.x, physics.friction),
                                     IF p.velocity.y < 0
                                     THEN ReflectFloor(p.velocity.y)
                                     ELSE p.velocity.y)]
    ELSE IF p.position.y >= hi
    THEN [p EXCEPT !.position = Vec2(p.position.x, hi),
                   !.velocity = Vec2(p.velocity.x,
                                     IF p.velocity.y > 0
                                     THEN Reflect(p.velocity.y)
                                     ELSE p.velocity.y)]
    ELSE p

(* The horizontal branch of handle_boundary_collision. *)
HorizontalBoundaries(p, lo, hi) ==
    IF p.position.x <= lo
    THEN [p EXCEPT !.position = Vec2(lo, p.position.y),
                   !.velocity = Vec2(IF p.velocity.x < 0
                                     THEN Reflect(p.velocity.x)
                                     ELSE p.velocity.x,
                                     p.velocity.y)]
    ELSE IF p.position.x >= hi
    THEN [p EXCEPT !.position = Vec2(hi, p.position.y),
                   !.velocity = Vec2(IF p.velocity.x > 0
                                     THEN Reflect(p.velocity.x)
                                     ELSE p.velocity.x,
                                     p.velocity.y)]
    ELSE p

min_x(p) == Boundary_new.left + p.radius

(* Mutant: the right limit forgets the radius. *)
max_x_NoRadius(p) == Boundary_new.right

max_x(p) == Boundary_new.right - p.radius

min_y(p) == Boundary_new.bottom + p.radius

max_y(p) == Boundary_new.top - p.radius

handle_boundary_collision(p) ==
    HorizontalBoundaries(VerticalBoundaries(p, min_y(p), max_y(p)), min_x(p), max_x(p))

----------------------------------------------------------------------------
(* resolve_particle_collision                                              *)

Delta(p1, p2) == VSub(p2.position, p1.position)

Distance(p1, p2) == VLength(Delta(p1, p2))

MinDist(p1, p2) == p1.radius + p2.radius

(* Mutant: circles that touch count as overlapping. *)
NoContact_Strict(distance, min_dist) == distance > min_dist \/ distance = 0

(* The early return: no overlap, or coincident centers. *)
NoContact(distance, min_dist) == distance >= min_dist \/ distance = 0

Normal(p1, p2) == VDivS(Delta(p1, p2), Distance(p1, p2))

VelAlongNormal(p1, p2) == VDot(VSub(p2.velocity, p1.velocity), Normal(p1, p2))

(* Mutant: the test of the second early return has the wrong sign. *)
AlreadySeparating_Flipped(vel_along_normal) == vel_along_normal < 0

(* The second early return: the pair is already separating. *)
AlreadySeparating(vel_along_normal) == vel_along_normal > 0

(* Separate particles: each moves by the other's share of the mass. *)
Separate(p1, p2) ==
    LET normal == Normal(p1, p2)
        overlap == MinDist(p1, p2) - Distance(p1, p2)
        total_mass == p1.mass + p2.mass
    IN  <<[p1 EXCEPT !.position =
             VSub(p1.position, VMulS(VMulS(normal, overlap), FDiv(p2.mass, total_mass)))],
          [p2 EXCEPT !.position =
             VAdd(p2.position, VMulS(VMulS(normal, overlap), FDiv(p1.mass, total_mass)))]>>

Impulse(p1, p2, vel_along_normal) ==
    FDiv(FMul(-(Lit(1, 1) + physics.restitution), vel_along_normal),
         FDiv(Lit(1, 1), p1.mass) + FDiv(Lit(1, 1), p2.mass))

(* Mutant: both velocity updates divide by p1.mass. *)
ApplyImpulse_OneMass(q1, q2, impulse_vec) ==
    <<[q1 EXCEPT !.velocity = VSub(q1.velocity, VDivS(impulse_vec, q1.mass))],
      [q2 EXCEPT !.velocity = VAdd(q2.velocity, VDivS(impulse_vec, q1.mass))]>>

(* p1.velocity -= impulse_vec / p1.mass; p2.velocity += impulse_vec / p2.mass *)
ApplyImpulse(q1, q2, impulse_vec) ==
    <<[q1 EXCEPT !.velocity = VSub(q1.velocity, VDivS(impulse_vec, q1.mass))],
      [q2 EXCEPT !.velocity = VAdd(q2.velocity, VDivS(impulse_vec, q2.mass))]>>

resolve_particle_collision(p1, p2) ==
    IF NoContact(Distance(p1, p2), MinDist(p1, p2)) THEN <<p1, p2>>
    ELSE LET normal == Normal(p1, p2)
             q == Separate(p1, p2)
             vel_along_normal == VelAlongNormal(p1, p2)
         IN  IF AlreadySeparating(vel_along_normal) THEN q
             ELSE ApplyImpulse(q[1], q[2],
                               VMulS(normal, Impulse(p1, p2, vel_along_normal)))

----------------------------------------------------------------------------
(* main                                                                    *)

(* The window of macroquad's default Conf, 800 x 600 pixels. *)
Screens == {<<Lit(800, 1), Lit(600, 1)>>}

InitialParticles ==
    <<Particle_new(Vec2(Lit(8, 1), Lit(0, 1)), Vec2(Lit(1, 1), Lit(40, 1)), Lit(8, 10), Lit(10, 1)),
      Particle_new(Vec2(Lit(8, 1), Lit(9, 1)), Vec2(Lit(0, 1), Lit(0, 1)), Lit(4, 10), Lit(2, 1))>>

(* Values get_frame_time() may return, in ticks: none, half a step, a     *)
(* step, two steps.                                                        *)
FrameTimes ==
    {0, TIME_STEP_TICKS \div 2, TIME_STEP_TICKS, 2 * TIME_STEP_TICKS}

(* Frame times of a stalled window as well: the smallest f32 values that   *)
(* are at least 18 and at least 19 steps.                                  *)
SlowFrameTimes == FrameTimes \cup {322122592, 340018272}

(* The sub-steps main may complete in a run of Spec. *)
MaxSteps == 800

(* The sub-steps main may complete in a run of SpecSlow. *)
MaxSlowSteps == 40

Snapshot(r, acc) ==
    [particles |-> particles[r], steps |-> steps[r], accumulator |-> acc]

(* Mutant: the loop needs more than a whole step. *)
LoopCondition_Strict(acc) == acc > TIME_STEP_TICKS

(* The condition of the while loop. *)
LoopCondition(acc) == acc >= TIME_STEP_TICKS

(* Mutant: the boundary loop runs before the pairwise resolution. *)
PhaseAfter_BoundaryFirst(ph) ==
    CASE ph = "update" -> "boundary"
      [] ph = "boundary" -> "collide"
      [] ph = "collide" -> "dec"

(* The phase main enters when the for loop or call of phase ph is over. *)
PhaseAfter(ph) ==
    CASE ph = "update" -> "collide"
      [] ph = "collide" -> "boundary"
      [] ph = "boundary" -> "dec"

(* Mutant: update is given the time held by the accumulator (a variable   *)
(* step), converted from ticks to fixed point.                            *)
SubStepDt_Accumulator(r) == RoundDiv((accumulator[r] \div 1024) * Scale, 1048576)

(* The dt main passes to update. *)
SubStepDt(r) == TIME_STEP

(* clear_background; accumulator += get_frame_time().  A frame starts only *)
(* if the sub-steps it will run stay within bound, so that no frame is    *)
(* cut short by the bound.                                                *)
Frame(r, times, bound) ==
    /\ pc[r] = "frame"
    /\ \E ft \in times :
          /\ steps[r] + ((accumulator[r] + ft) \div TIME_STEP_TICKS) + 1 <= bound
          /\ accumulator' = [accumulator EXCEPT ![r] = RoundF32(accumulator[r] + ft)]
          /\ pre' = [pre EXCEPT ![r] = Snapshot(r, RoundF32(accumulator[r] + ft))]
    /\ pc' = [pc EXCEPT ![r] = "while"]
    /\ UNCHANGED <<screen, particles, idx, steps, phases>>

(* while accumulator >= TIME_STEP: the loop is entered *)
WhileEnter(r) ==
    /\ pc[r] = "while"
    /\ LoopCondition(accumulator[r])
    /\ pc' = [pc EXCEPT ![r] = "update"]
    /\ idx' = [idx EXCEPT ![r] = 1]
    /\ phases' = [phases EXCEPT ![r] = <<>>]
    /\ UNCHANGED <<screen, particles, accumulator, steps, pre>>

(* while accumulator >= TIME_STEP: the loop is left *)
WhileExit(r) ==
    /\ pc[r] = "while"
    /\ ~LoopCondition(accumulator[r])
    /\ pc' = [pc EXCEPT ![r] = "draw"]
    /\ UNCHANGED <<screen, particles, accumulator, idx, steps, phases, pre>>

(* The index and the phase after one iteration of a for loop over the    *)
(* particles.                                                            *)
ForNext(r, ph) ==
    IF idx[r] < Len(particles[r])
    THEN /\ idx' = [idx EXCEPT ![r] = idx[r] + 1]
         /\ pc' = pc
    ELSE /\ idx' = [idx EXCEPT ![r] = 1]
         /\ pc' = [pc EXCEPT ![r] = PhaseAfter(ph)]

(* for p in &mut particles { p.update(&physics, TIME_STEP) }: one iteration *)
UpdateParticle(r) ==
    /\ pc[r] = "update"
    /\ particles' = [particles EXCEPT ![r][idx[r]] = update(@, SubStepDt(r))]
    /\ phases' = [phases EXCEPT ![r] = Append(@, <<"update", idx[r]>>)]
    /\ ForNext(r, "update")
    /\ UNCHANGED <<screen, accumulator, steps, pre>>

(* split_at_mut(1); resolve_particle_collision(&mut left[0], &mut right[0]) *)
Collide(r) ==
    /\ pc[r] = "collide"
    /\ LET res == resolve_particle_collision(particles[r][1], particles[r][2])
       IN  particles' = [particles EXCEPT ![r][1] = res[1], ![r][2] = res[2]]
    /\ phases' = [phases EXCEPT ![r] = Append(@, <<"collide", 0>>)]
    /\ pc' = [pc EXCEPT ![r] = PhaseAfter("collide")]
    /\ UNCHANGED <<screen, accumulator, idx, steps, pre>>

(* for p in &mut particles { p.handle_boundary_collision(&physics) }: one iteration *)
BoundaryParticle(r) ==
    /\ pc[r] = "boundary"
    /\ particles' = [particles EXCEPT ![r][idx[r]] = handle_boundary_collision(@)]
    /\ phases' = [phases EXCEPT ![r] = Append(@, <<"boundary", idx[r]>>)]
    /\ ForNext(r, "boundary")
    /\ UNCHANGED <<screen, accumulator, steps, pre>>

(* accumulator -= TIME_STEP *)
Decrement(r) ==
    /\ pc[r] = "dec"
    /\ accumulator' = [accumulator EXCEPT ![r] = RoundF32(@ - TIME_STEP_TICKS)]
    /\ steps' = [steps EXCEPT ![r] = @ + 1]
    /\ phases' = [phases EXCEPT ![r] = Append(@, <<"dec", 0>>)]
    /\ pc' = [pc EXCEPT ![r] = "while"]
    /\ UNCHANGED <<screen, particles, idx, pre>>

(* Boundary::new().draw(); p.draw() for every particle; next_frame().await *)
Draw(r) ==
    /\ pc[r] = "draw"
    /\ pc' = [pc EXCEPT ![r] = "frame"]
    /\ UNCHANGED <<screen, particles, accumulator, idx, steps, phases, pre>>

(* Every run starts with the particles ps at position start. *)
StartWith(ps, start) ==
    /\ screen \in Screens
    /\ particles = [r \in Runs |-> ps]
    /\ accumulator = [r \in Runs |-> 0]
    /\ pc = [r \in Runs |-> start]
    /\ idx = [r \in Runs |-> 1]
    /\ steps = [r \in Runs |-> 0]
    /\ phases = [r \in Runs |-> <<>>]
    /\ pre = [r \in Runs |-> [particles |-> ps, steps |-> 0, accumulator |-> 0]]

Init == StartWith(InitialParticles, "frame")

Next ==
    \/ Frame(1, FrameTimes, MaxSteps)
    \/ WhileEnter(1)
    \/ WhileExit(1)
    \/ UpdateParticle(1)
    \/ Collide(1)
    \/ BoundaryParticle(1)
    \/ Decrement(1)
    \/ Draw(1)

Spec == Init /\ [][Next]_vars

(* main with frame times of a stalled window. *)
NextSlow ==
    \/ Frame(1, SlowFrameTimes, MaxSlowSteps)
    \/ WhileEnter(1)
    \/ WhileExit(1)
    \/ UpdateParticle(1)
    \/ Collide(1)
    \/ BoundaryParticle(1)
    \/ Decrement(1)
    \/ Draw(1)

SpecSlow == Init /\ [][NextSlow]_vars

(* Two runs of main, each with frame times of its own. *)
MaxPairSteps == 12

(* Run 1 is given half steps and double steps (frames of zero, one and two *)
(* sub-steps), run 2 half steps and whole steps (frames of zero and one).  *)
PairFrameTimes(r) ==
    IF r = 1 THEN {TIME_STEP_TICKS \div 2, 2 * TIME_STEP_TICKS}
    ELSE {TIME_STEP_TICKS \div 2, TIME_STEP_TICKS}

NextPair ==
    \E r \in Runs :
        \/ Frame(r, PairFrameTimes(r), MaxPairSteps)
        \/ WhileEnter(r)
        \/ WhileExit(r)
        \/ UpdateParticle(r)
        \/ Collide(r)
        \/ BoundaryParticle(r)
        \/ Decrement(r)
        \/ Draw(r)

SpecPair == Init /\ [][NextPair]_vars

----------------------------------------------------------------------------
(* resolve_particle_collision on its own                                   *)

(* Offsets of p2's center from p1's, per axis, in fixed-point units:      *)
(* none, one unit, inside the overlap, at r1 + r2 exactly, outside.       *)
ResolveOffsets ==
    {0, 1, -1, Lit(-3, 10), Lit(5, 10), Lit(-9, 10), Lit(12, 10), Lit(-12, 10), Lit(15, 10)}

ResolveVelocities ==
    {Vec2(0, 0), Vec2(Lit(1, 1), Lit(40, 1)), Vec2(Lit(-3, 1), Lit(2, 1)),
     Vec2(Lit(7, 3), Lit(-5, 7))}

ResolveMasses == {<<Lit(10, 1), Lit(2, 1)>>, <<Lit(3, 1), Lit(7, 1)>>}

ResolveInputs ==
    { <<Particle_new(Vec2(Lit(10, 1), Lit(10, 1)), v1, Lit(8, 10), m[1]),
        Particle_new(Vec2(Lit(10, 1) + dx, Lit(10, 1) + dy), v2, Lit(4, 10), m[2])>> :
        v1 \in ResolveVelocities, v2 \in ResolveVelocities, m \in ResolveMasses,
        dx \in ResolveOffsets, dy \in ResolveOffsets }

InitResolve == \E ps \in ResolveInputs : StartWith(ps, "resolve_call")

ResolveCall(r) ==
    /\ pc[r] = "resolve_call"
    /\ pre' = [pre EXCEPT ![r] = Snapshot(r, accumulator[r])]
    /\ LET res == resolve_particle_collision(particles[r][1], particles[r][2])
       IN  particles' = [particles EXCEPT ![r][1] = res[1], ![r][2] = res[2]]
    /\ pc' = [pc EXCEPT ![r] = "resolve_ret"]
    /\ UNCHANGED <<screen, accumulator, idx, steps, phases>>

NextResolve == ResolveCall(1)

SpecResolve == InitResolve /\ [][NextResolve]_vars

----------------------------------------------------------------------------
(* handle_boundary_collision on its own                                    *)

(* Coordinates relative to the inner limits lo..hi of an axis. *)
BoundaryCoords(lo, hi) ==
    {lo - Lit(1, 2), lo, lo + 1, (lo + hi) \div 2, hi - 1, hi, hi + Lit(1, 2)}

BoundarySpeeds == {Lit(-40, 1), Lit(-1, 10), -1, 0, 1, Lit(1, 10), Lit(40, 1)}

BoundaryRadius == Lit(8, 10)

InitBoundary ==
    \E sc \in Screens : \E vx \in BoundarySpeeds, vy \in BoundarySpeeds :
      \E x \in BoundaryCoords(BOUNDARY_PADDING + BoundaryRadius,
                              FDiv(sc[1], FDiv(Min(sc[1], sc[2]), SIM_MIN_WIDTH))
                                - BOUNDARY_PADDING - BoundaryRadius) :
        \E y \in BoundaryCoords(BOUNDARY_PADDING + BoundaryRadius,
                                FDiv(sc[2], FDiv(Min(sc[1], sc[2]), SIM_MIN_WIDTH))
                                  - BOUNDARY_PADDING - BoundaryRadius) :
          /\ StartWith(<<Particle_new(Vec2(x, y), Vec2(vx, vy), BoundaryRadius, Lit(10, 1)),
                         InitialParticles[2]>>, "boundary_call")
          /\ screen = sc

BoundaryCall(r) ==
    /\ pc[r] = "boundary_call"
    /\ pre' = [pre EXCEPT ![r] = Snapshot(r, accumulator[r])]
    /\ particles' = [particles EXCEPT ![r][1] = handle_boundary_collision(@)]
    /\ pc' = [pc EXCEPT ![r] = "boundary_ret"]
    /\ UNCHANGED <<screen, accumulator, idx, steps, phases>>

NextBoundary == BoundaryCall(1)

SpecBoundary == InitBoundary /\ [][NextBoundary]_vars

----------------------------------------------------------------------------
(* A single particle dropped above the floor: update, then                 *)
(* handle_boundary_collision, over and over.                               *)

(* The heights of the drop above min_y. *)
DropHeights == {Lit(1, 10), Lit(1, 1), Lit(3, 1), Lit(8, 1)}

InitFloor ==
    \E h \in DropHeights :
        StartWith(<<Particle_new(Vec2(Lit(8, 1), BOUNDARY_PADDING + Lit(8, 10) + h),
                                 Vec2(0, 0), Lit(8, 10), Lit(10, 1)),
                    InitialParticles[2]>>, "floor_update")

FloorUpdate(r) ==
    /\ pc[r] = "floor_update"
    /\ pre' = [pre EXCEPT ![r] = Snapshot(r, accumulator[r])]
    /\ particles' = [particles EXCEPT ![r][1] = update(@, TIME_STEP)]
    /\ pc' = [pc EXCEPT ![r] = "floor_boundary"]
    /\ UNCHANGED <<screen, accumulator, idx, steps, phases>>

FloorBoundary(r) ==
    /\ pc[r] = "floor_boundary"
    /\ particles' = [particles EXCEPT ![r][1] = handle_boundary_collision(@)]
    /\ pc' = [pc EXCEPT ![r] = "floor_update"]
    /\ UNCHANGED <<screen, accumulator, idx, steps, phases, pre>>

NextFloor == FloorUpdate(1) \/ FloorBoundary(1)

SpecFloor == InitFloor /\ [][NextFloor]_vars

----------------------------------------------------------------------------
(* Properties                                                              *)

(* Run r is between two sub-steps: no sub-step is underway. *)
BetweenSubSteps(r) == pc[r] \in {"frame", "while", "draw"}

(* The center of p lies in the padded boundary rectangle. *)
CenterInBoundary(p) ==
    /\ Boundary_new.left <= p.position.x /\ p.position.x <= Boundary_new.right
    /\ Boundary_new.bottom <= p.position.y /\ p.position.y <= Boundary_new.top

(* C1: in the reference scenario, in every state handed to rendering (the  *)
(* initial state included, whatever the frame times) the center of each    *)
(* particle lies in the padded boundary rectangle.                         *)
C1_CentersStayInBoundary ==
    pc[1] = "draw" => \A i \in 1..Len(particles[1]) : CenterInBoundary(particles[1][i])

(* p rests on the floor. *)
Rest(p) == p.velocity.y = 0 /\ p.position.y = BOUNDARY_PADDING + p.radius

(* C2: once a dropped particle has velocity.y = 0 and position.y = min_y,  *)
(* every further sub-step (update, then handle_boundary_collision) ends    *)
(* with velocity.y = 0 and position.y = min_y again.  pre[1] is the state  *)
(* the sub-step that has just ended started from.                          *)
C2_FloorRestStays ==
    (pc[1] = "floor_update" /\ Rest(pre[1].particles[1])) => Rest(particles[1][1])

ExpectedPhases ==
    <<<<"update", 1>>, <<"update", 2>>, <<"collide", 0>>,
      <<"boundary", 1>>, <<"boundary", 2>>, <<"dec", 0>>>>

(* C3: within every sub-step the phases run in a fixed order: update of    *)
(* every particle, then resolve_particle_collision, then                   *)
(* handle_boundary_collision of every particle, then the decrement of the  *)
(* accumulator; no sub-step skips, repeats or reorders a phase.  phases[1] *)
(* records the phase steps taken since the sub-step was entered.           *)
C3_PhaseOrder ==
    /\ Len(phases[1]) <= Len(ExpectedPhases)
    /\ phases[1] = SubSeq(ExpectedPhases, 1, Len(phases[1]))
    /\ pc[1] = "update" => Len(phases[1]) = idx[1] - 1
    /\ pc[1] = "collide" => Len(phases[1]) = 2
    /\ pc[1] = "boundary" => Len(phases[1]) = 2 + idx[1]
    /\ pc[1] = "dec" => Len(phases[1]) = 5
    /\ BetweenSubSteps(1) => Len(phases[1]) = (IF steps[1] = 0 THEN 0 ELSE 6)

(* A second sub-step has run all its phases but the decrement. *)
C3_Witness == pc[1] = "dec" /\ steps[1] = 1 /\ Len(phases[1]) = 5

(* C4: with constant world dimensions, whatever the frame times of two     *)
(* runs, the particles after the k-th completed sub-step are the same in   *)
(* both.                                                                   *)
C4_Deterministic ==
    (BetweenSubSteps(1) /\ BetweenSubSteps(2) /\ steps[1] = steps[2])
        => particles[1] = particles[2]

(* Both runs have completed 11 sub-steps, the collision of the two         *)
(* particles included, in frames that split the time differently.          *)
C4_Witness ==
    /\ pc[1] = "draw" /\ pc[2] = "draw"
    /\ steps[1] = 11 /\ steps[2] = 11
    /\ pre[1].steps = 9 /\ pre[2].steps = 10
    /\ accumulator[1] # accumulator[2]
    /\ particles[1][2].velocity.x # 0

(* m1 * v1 + m2 * v2, in units of 1 / Scale^2. *)
Momentum(ps) ==
    Vec2(ps[1].mass * ps[1].velocity.x + ps[2].mass * ps[2].velocity.x,
         ps[1].mass * ps[1].velocity.y + ps[2].mass * ps[2].velocity.y)

(* The call of resolve_particle_collision has returned; it was made on an  *)
(* overlapping pair with distinct centers.                                 *)
ResolvedOverlap ==
    /\ pc[1] = "resolve_ret"
    /\ Distance(pre[1].particles[1], pre[1].particles[2]) > 0
    /\ Distance(pre[1].particles[1], pre[1].particles[2])
         < pre[1].particles[1].radius + pre[1].particles[2].radius

(* ... and the pair was closing. *)
ResolvedClosing ==
    /\ ResolvedOverlap
    /\ VelAlongNormal(pre[1].particles[1], pre[1].particles[2]) <= 0

(* C5, as claimed: on an overlapping, closing pair the call leaves         *)
(* m1 * v1 + m2 * v2 exactly as it was.                                    *)
C5_MomentumExact ==
    ResolvedClosing => Momentum(particles[1]) = Momentum(pre[1].particles)

(* C5, amended: on an overlapping, closing pair the call leaves            *)
(* m1 * v1 + m2 * v2 as it was within the rounding of the two velocity     *)
(* updates: each component changes by at most (m1 + m2) times one unit in  *)
(* the last place of a velocity.                                           *)
C5_MomentumWithinRounding ==
    ResolvedClosing =>
        LET before == Momentum(pre[1].particles)
            after == Momentum(particles[1])
            tol == pre[1].particles[1].mass + pre[1].particles[2].mass
        IN  /\ Abs(after.x - before.x) <= tol
            /\ Abs(after.y - before.y) <= tol

(* A closing pair got an impulse. *)
C5_Witness ==
    /\ ResolvedClosing
    /\ particles[1][1].velocity # pre[1].particles[1].velocity
    /\ particles[1][2].velocity # pre[1].particles[2].velocity

(* C6: on an overlapping pair that is already separating                   *)
(* (vel_along_normal > 0) the call changes no velocity, radius or mass;    *)
(* only the positions may move.                                            *)
C6_SeparatingKeepsVelocity ==
    (ResolvedOverlap /\ VelAlongNormal(pre[1].particles[1], pre[1].particles[2]) > 0)
        => \A i \in 1..2 :
              /\ particles[1][i].velocity = pre[1].particles[i].velocity
              /\ particles[1][i].radius = pre[1].particles[i].radius
              /\ particles[1][i].mass = pre[1].particles[i].mass

(* A separating pair was pushed apart. *)
C6_Witness ==
    /\ ResolvedOverlap
    /\ VelAlongNormal(pre[1].particles[1], pre[1].particles[2]) > 0
    /\ particles[1][1].position # pre[1].particles[1].position
    /\ particles[1][2].position # pre[1].particles[2].position

(* C7: on coincident centers, and on a pair at distance >= r1 + r2, the    *)
(* call changes nothing of either particle.                                *)
C7_NoOpWithoutContact ==
    (/\ pc[1] = "resolve_ret"
     /\ \/ pre[1].particles[1].position = pre[1].particles[2].position
        \/ Distance(pre[1].particles[1], pre[1].particles[2])
             >= pre[1].particles[1].radius + pre[1].particles[2].radius)
        => particles[1] = pre[1].particles

(* The call was made on coincident centers with a relative velocity. *)
C7_Witness ==
    /\ pc[1] = "resolve_ret"
    /\ pre[1].particles[1].position = pre[1].particles[2].position
    /\ pre[1].particles[1].velocity # pre[1].particles[2].velocity

(* The contacts of the particle handle_boundary_collision was called on. *)
OnFloor(p) == p.position.y <= BOUNDARY_PADDING + p.radius

IntoCeiling(p) ==
    /\ ~OnFloor(p)
    /\ p.position.y >= world_dimensions.y - BOUNDARY_PADDING - p.radius
    /\ p.velocity.y > 0

IntoLeftWall(p) == p.position.x <= BOUNDARY_PADDING + p.radius /\ p.velocity.x < 0

IntoRightWall(p) ==
    /\ p.position.x > BOUNDARY_PADDING + p.radius
    /\ p.position.x >= world_dimensions.x - BOUNDARY_PADDING - p.radius
    /\ p.velocity.x > 0

(* C8, as claimed: a particle in contact with the left wall, the right     *)
(* wall or the ceiling and moving into it leaves the call with that        *)
(* velocity component equal to restitution times its value before the      *)
(* call, sign reversed, whatever other contacts occur in the call.         *)
C8_ReflectionOfValueBeforeCall ==
    pc[1] = "boundary_ret" =>
        LET p == pre[1].particles[1]
            q == particles[1][1]
        IN  /\ IntoCeiling(p) => q.velocity.y = FMul(-p.velocity.y, physics.restitution)
            /\ (IntoLeftWall(p) \/ IntoRightWall(p))
                  => q.velocity.x = FMul(-p.velocity.x, physics.restitution)

(* C8, amended: the reflected component is never zero and equals           *)
(* restitution times its value at the reflection, sign reversed: for the   *)
(* ceiling, and for a wall without floor contact, that is the value        *)
(* before the call; with floor contact in the same call velocity.x is      *)
(* first multiplied by friction.  No threshold zeroing is applied.         *)
C8_ReflectionAfterFriction ==
    pc[1] = "boundary_ret" =>
        LET p == pre[1].particles[1]
            q == particles[1][1]
            vx == IF OnFloor(p) THEN FMul(p.velocity.x, physics.friction) ELSE p.velocity.x
        IN  /\ IntoCeiling(p) =>
                  /\ q.velocity.y = FMul(-p.velocity.y, physics.restitution)
                  /\ q.velocity.y < 0
            /\ (IntoLeftWall(p) \/ IntoRightWall(p)) =>
                  /\ q.velocity.x = FMul(-vx, physics.restitution)
                  /\ q.velocity.x # 0
                  /\ (q.velocity.x > 0) = (p.velocity.x < 0)

(* A slow particle in the corner of the floor and the left wall, moving    *)
(* into the wall.                                                          *)
C8_Witness ==
    /\ pc[1] = "boundary_ret"
    /\ OnFloor(pre[1].particles[1])
    /\ IntoLeftWall(pre[1].particles[1])
    /\ Abs(pre[1].particles[1].velocity.x) < VELOCITY_THRESHOLD
    /\ particles[1][1].velocity.x > 0

(* The sub-steps of the frame that is being drawn. *)
FrameSubSteps == steps[1] - pre[1].steps

(* C9, as claimed: when the state is handed to rendering,                  *)
(* 0 <= accumulator < TIME_STEP; a frame whose accumulated time stayed     *)
(* below TIME_STEP ran no sub-step and changed no particle; a frame that   *)
(* brought the accumulator to at least n * TIME_STEP ran at least n        *)
(* sub-steps, for every n.                                                 *)
C9_DrainAnyN ==
    pc[1] = "draw" =>
        /\ 0 <= accumulator[1] /\ accumulator[1] < TIME_STEP_TICKS
        /\ pre[1].accumulator < TIME_STEP_TICKS =>
              (FrameSubSteps = 0 /\ particles[1] = pre[1].particles)
        /\ \A n \in 1..(pre[1].accumulator \div TIME_STEP_TICKS) :
              pre[1].accumulator >= n * TIME_STEP_TICKS => FrameSubSteps >= n

(* C9, amended: the same, with the last part for n <= 18 only: the f32     *)
(* subtractions round, and a frame that brings the accumulator to 19       *)
(* steps or more may leave one of them to a later frame.                   *)
C9_DrainUpTo18 ==
    pc[1] = "draw" =>
        /\ 0 <= accumulator[1] /\ accumulator[1] < TIME_STEP_TICKS
        /\ pre[1].accumulator < TIME_STEP_TICKS =>
              (FrameSubSteps = 0 /\ particles[1] = pre[1].particles)
        /\ \A n \in 1..18 :
              pre[1].accumulator >= n * TIME_STEP_TICKS => FrameSubSteps >= n

(* A stalled frame of at least 18 steps has been drained. *)
C9_Witness ==
    /\ pc[1] = "draw"
    /\ pre[1].accumulator >= 18 * TIME_STEP_TICKS
    /\ FrameSubSteps >= 18
    /\ accumulator[1] > 0

(* C10: at the end of every completed sub-step each particle's center lies *)
(* inside the effective inner limits: left + r <= x <= right - r and       *)
(* bottom + r <= y <= top - r.                                             *)
C10_InsideInnerLimits ==
    (pc[1] = "dec" \/ (BetweenSubSteps(1) /\ steps[1] >= 1)) =>
        \A i \in 1..Len(particles[1]) :
            LET p == particles[1][i]
            IN  /\ Boundary_new.left + p.radius <= p.position.x
                /\ p.position.x <= Boundary_new.right - p.radius
                /\ Boundary_new.bottom + p.radius <= p.position.y
                /\ p.position.y <= Boundary_new.top - p.radius

(* A sub-step ends with particle 1 held at the right inner limit, its     *)
(* velocity reflected, after the integration took it beyond.               *)
C10_Witness ==
    /\ pc[1] = "dec"
    /\ steps[1] >= 1
    /\ particles[1][1].position.x = Boundary_new.right - particles[1][1].radius
    /\ particles[1][1].velocity.x < 0

====
